---- MODULE Spec2Model ----
(***************************************************************************)
(* Model of the binance_bot order toolkit: validators, the exchange client *)
(* accessor, the single-order placers, the grid / TWAP / OCO strategies    *)
(* and the order manager.  One call of one operation runs per behaviour;   *)
(* the exchange (client construction, ticker, order submission) is the     *)
(* nondeterministic environment.                                           *)
(*                                                                         *)
(* Python floats are IEEE-754 doubles.  They are modelled bit-exactly for  *)
(* the normal range: a float is [s, m, e] with m a sequence of MantBits    *)
(* bits (most significant first, leading bit 1) and value                  *)
(* (-1)^s * m * 2^e; zero has the empty mantissa.  Every operation is the  *)
(* exact operation followed by round-to-nearest-even.                      *)
(***************************************************************************)
EXTENDS Integers, Sequences, FiniteSets, TLC

\* ------------------------------------------------------------------------
\* Exact binary arithmetic on bit sequences (most significant bit first)
\* ------------------------------------------------------------------------

\* width of the significand of a Python float (IEEE-754 binary64)
MantBits == 53

\* extra quotient bits produced by a division before rounding
DivGuard == 12

Zeros(n) == [i \in 1..n |-> 0]

RECURSIVE BitsOfNat(_)
BitsOfNat(n) == IF n = 0 THEN <<>> ELSE Append(BitsOfNat(n \div 2), n % 2)

\* number of leading zero bits of b
LeadingZeros(b) ==
    Cardinality({ i \in 1..Len(b) : \A j \in 1..i : b[j] = 0 })

DropBits(b, n) == SubSeq(b, n + 1, Len(b))

StripLead(b) == DropBits(b, LeadingZeros(b))

PadLeft(b, n) == Zeros(n - Len(b)) \o b

\* The four ripple operations below carry a small state (carry, borrow or
\* remainder) from bit to bit; the range lo..hi is split in halves so that
\* the evaluation depth stays logarithmic in the length.  The half that
\* produces the state is evaluated first (the test on its state is never
\* true and only fixes the evaluation order).

\* a + b on positions lo..hi with incoming carry c (from the right)
RECURSIVE AddDC(_, _, _, _, _)
AddDC(a, b, lo, hi, c) ==
    IF lo > hi THEN [bits |-> <<>>, c |-> c]
    ELSE IF lo = hi
    THEN [bits |-> <<(a[lo] + b[lo] + c) % 2>>, c |-> (a[lo] + b[lo] + c) \div 2]
    ELSE LET mid == (lo + hi) \div 2
             r   == AddDC(a, b, mid + 1, hi, c)
             l   == AddDC(a, b, lo, mid, r.c)
         IN  IF r.c < 0 THEN r ELSE [bits |-> l.bits \o r.bits, c |-> l.c]

\* a + b for bit sequences of equal length n
WithCarry(r) == BitsOfNat(r.c) \o r.bits

AddBits(a, b, n) == WithCarry(AddDC(a, b, 1, n, 0))

\* a - b on positions lo..hi with incoming borrow c (from the right)
RECURSIVE SubDC(_, _, _, _, _)
SubDC(a, b, lo, hi, c) ==
    IF lo > hi THEN [bits |-> <<>>, c |-> c]
    ELSE IF lo = hi
    THEN [bits |-> <<(a[lo] - b[lo] - c + 2) % 2>>,
          c    |-> IF a[lo] - b[lo] - c < 0 THEN 1 ELSE 0]
    ELSE LET mid == (lo + hi) \div 2
             r   == SubDC(a, b, mid + 1, hi, c)
             l   == SubDC(a, b, lo, mid, r.c)
         IN  IF r.c < 0 THEN r ELSE [bits |-> l.bits \o r.bits, c |-> l.c]

\* a - b for bit sequences of equal length n with a >= b
SubBits(a, b, n) == SubDC(a, b, 1, n, 0).bits

\* a * k on positions lo..hi with incoming carry c (from the right)
RECURSIVE MulDC(_, _, _, _, _)
MulDC(a, k, lo, hi, c) ==
    IF lo > hi THEN [bits |-> <<>>, c |-> c]
    ELSE IF lo = hi
    THEN [bits |-> <<(a[lo] * k + c) % 2>>, c |-> (a[lo] * k + c) \div 2]
    ELSE LET mid == (lo + hi) \div 2
             r   == MulDC(a, k, mid + 1, hi, c)
             l   == MulDC(a, k, lo, mid, r.c)
         IN  IF r.c < 0 THEN r ELSE [bits |-> l.bits \o r.bits, c |-> l.c]

\* a * k for a small natural k
MulBits(a, k) == WithCarry(MulDC(a, k, 1, Len(a), 0))

\* long division of a by n on positions lo..hi with incoming remainder c
\* (from the left)
RECURSIVE DivDC(_, _, _, _, _)
DivDC(a, n, lo, hi, c) ==
    IF lo > hi THEN [bits |-> <<>>, c |-> c]
    ELSE IF lo = hi
    THEN [bits |-> <<IF 2 * c + a[lo] >= n THEN 1 ELSE 0>>,
          c    |-> IF 2 * c + a[lo] >= n THEN 2 * c + a[lo] - n ELSE 2 * c + a[lo]]
    ELSE LET mid == (lo + hi) \div 2
             l   == DivDC(a, n, lo, mid, c)
             r   == DivDC(a, n, mid + 1, hi, l.c)
         IN  IF l.c < 0 THEN l ELSE [bits |-> l.bits \o r.bits, c |-> r.c]

\* quotient bits and remainder (field c) of a divided by a small natural n >= 1
DivBits(a, n) == DivDC(a, n, 1, Len(a), 0)

\* An exact number is [b, e]: the natural with bits b, times 2^e.
XNum(b, e) == [b |-> b, e |-> e]

MinOf(x, y) == IF x <= y THEN x ELSE y
MaxOf(x, y) == IF x >= y THEN x ELSE y

\* the bits of x rescaled to exponent e <= x.e
XShift(x, e) == x.b \o Zeros(x.e - e)

\* a + b, a <= b, a - b on bit sequences of any lengths
AddAligned(a, b) ==
    AddBits(PadLeft(a, MaxOf(Len(a), Len(b))), PadLeft(b, MaxOf(Len(a), Len(b))),
            MaxOf(Len(a), Len(b)))

LeqBits(a, b) ==
    \/ a = b
    \/ \E i \in 1..Len(a) : a[i] < b[i] /\ \A j \in 1..(i-1) : a[j] = b[j]

LeqAligned(a, b) ==
    LeqBits(PadLeft(a, MaxOf(Len(a), Len(b))), PadLeft(b, MaxOf(Len(a), Len(b))))

SubAligned(a, b) ==
    SubBits(PadLeft(a, MaxOf(Len(a), Len(b))), PadLeft(b, MaxOf(Len(a), Len(b))),
            MaxOf(Len(a), Len(b)))

XAdd(x, y) ==
    XNum(AddAligned(XShift(x, MinOf(x.e, y.e)), XShift(y, MinOf(x.e, y.e))),
         MinOf(x.e, y.e))

\* x <= y
XLeq(x, y) == LeqAligned(XShift(x, MinOf(x.e, y.e)), XShift(y, MinOf(x.e, y.e)))

\* x - y, for y <= x
XSub(x, y) ==
    XNum(SubAligned(XShift(x, MinOf(x.e, y.e)), XShift(y, MinOf(x.e, y.e))),
         MinOf(x.e, y.e))

XAbsDiff(x, y) == IF XLeq(y, x) THEN XSub(x, y) ELSE XSub(y, x)

XMul(k, x) == XNum(MulBits(x.b, k), x.e)

\* ------------------------------------------------------------------------
\* Floats
\* ------------------------------------------------------------------------

FZero == [s |-> 0, m |-> <<>>, e |-> 0]

\* increment of a MantBits-bit significand that is not all ones
IncBits(b) ==
    LET z == CHOOSE i \in 1..Len(b) : b[i] = 0 /\ \A j \in (i+1)..Len(b) : b[j] = 1
    IN  [i \in 1..Len(b) |-> IF i < z THEN b[i] ELSE IF i = z THEN 1 ELSE 0]

\* round-to-nearest-even of the natural with bits b (no leading zero, more
\* than MantBits of them), times 2^e, plus a positive fraction of its last
\* place when sticky
RoundLong(s, b, e, sticky) ==
    LET guard == b[MantBits + 1]
        rest  == sticky \/ \E j \in (MantBits + 2)..Len(b) : b[j] = 1
        up    == guard = 1 /\ (rest \/ b[MantBits] = 1)
        ex    == e + (Len(b) - MantBits)
    IN  IF ~up THEN [s |-> s, m |-> SubSeq(b, 1, MantBits), e |-> ex]
        ELSE IF \A i \in 1..MantBits : b[i] = 1
        THEN [s |-> s, m |-> <<1>> \o Zeros(MantBits - 1), e |-> ex + 1]
        ELSE [s |-> s, m |-> IncBits(SubSeq(b, 1, MantBits)), e |-> ex]

RoundBits(s, b, e, sticky) ==
    IF Len(b) = 0 THEN FZero
    ELSE IF Len(b) <= MantBits
    THEN [s |-> s, m |-> b \o Zeros(MantBits - Len(b)), e |-> e - (MantBits - Len(b))]
    ELSE RoundLong(s, b, e, sticky)

\* round-to-nearest-even of the exact value x (plus a positive fraction of
\* its last place when sticky) to a float of sign s
Round(s, x, sticky) == RoundBits(s, StripLead(x.b), x.e, sticky)

\* float("nan"): not a number; every comparison with it is false and every
\* arithmetic operation on it gives it back
NaN == [s |-> 0, m |-> <<>>, e |-> 0, nan |-> TRUE]

IsNaN(x) == "nan" \in DOMAIN x

\* the exact value of a non-negative float
XOf(f) == XNum(f.m, f.e)

\* float(n) for an integer n
Abs(n) == IF n < 0 THEN -n ELSE n
SignOf(n) == IF n < 0 THEN 1 ELSE 0

FromInt(n) == Round(SignOf(n), XNum(BitsOfNat(Abs(n)), 0), FALSE)

\* x / n for a non-negative float x and an integer n >= 1 (n is converted to
\* a float exactly, the quotient is correctly rounded)
Quotient(s, d, e) == Round(s, XNum(d.bits, e), d.c # 0)

FDivInt(x, n) ==
    IF IsNaN(x) THEN NaN
    ELSE IF x.m = <<>> THEN FZero
    ELSE Quotient(x.s, DivBits(x.m \o Zeros(DivGuard), n), x.e - DivGuard)

\* k * x for an integer k >= 0 and a non-negative float x
FMulInt(k, x) ==
    IF IsNaN(x) THEN NaN
    ELSE IF k = 0 \/ x.m = <<>> THEN FZero
    ELSE Round(0, XMul(k, XOf(x)), FALSE)

\* x + y for non-negative floats
FAdd(x, y) ==
    IF IsNaN(x) \/ IsNaN(y) THEN NaN
    ELSE IF x.m = <<>> THEN y
    ELSE IF y.m = <<>> THEN x
    ELSE Round(0, XAdd(XOf(x), XOf(y)), FALSE)

\* x < y, x <= y for floats of either sign
FLess(x, y) ==
    IF IsNaN(x) \/ IsNaN(y) THEN FALSE
    ELSE IF x.s = 1 /\ y.s = 0 THEN x.m # <<>> \/ y.m # <<>>
    ELSE IF x.s = 0 /\ y.s = 1 THEN FALSE
    ELSE IF x.s = 0 THEN x # y /\ XLeq(XOf(x), XOf(y))
    ELSE x # y /\ XLeq(XOf(y), XOf(x))

FLeq(x, y) == ~IsNaN(x) /\ ~IsNaN(y) /\ (x = y \/ FLess(x, y))

\* x - y for non-negative floats with y <= x
FSub(x, y) ==
    IF IsNaN(x) \/ IsNaN(y) THEN NaN
    ELSE IF y.m = <<>> THEN x
    ELSE Round(0, XSub(XOf(x), XOf(y)), FALSE)

\* float("num/den" written as a decimal): the double nearest to num / den
FromRatio(num, den) == FDivInt(FromInt(num), den)

\* number of trailing zero bits of b
TrailingZeros(b) ==
    Cardinality({ i \in 1..Len(b) : \A j \in i..Len(b) : b[j] = 0 })

RECURSIVE NatOfBits(_)
NatOfBits(b) ==
    IF b = <<>> THEN 0 ELSE 2 * NatOfBits(SubSeq(b, 1, Len(b) - 1)) + b[Len(b)]

\* a non-zero float as k * 2^e with k odd; used for floats whose k is a small
\* natural (below 2^(DivGuard - 1)), such as the executed quantities
OddPart(x) ==
    [k |-> NatOfBits(SubSeq(x.m, 1, Len(x.m) - TrailingZeros(x.m))),
     e |-> x.e + TrailingZeros(x.m)]

ScaleBy(x, e) == IF x.m = <<>> THEN x ELSE [x EXCEPT !.e = @ + e]

TimesOdd(q, y) == ScaleBy(FMulInt(q.k, y), q.e)

OverOdd(x, q) == ScaleBy(FDivInt(x, q.k), -q.e)

\* x * y for non-negative floats, x with a small odd part
FMul(x, y) ==
    IF IsNaN(x) \/ IsNaN(y) THEN NaN
    ELSE IF x.m = <<>> \/ y.m = <<>> THEN FZero
    ELSE TimesOdd(OddPart(x), y)

\* x / y for non-negative floats, y > 0 with a small odd part
FDiv(x, y) ==
    IF IsNaN(x) \/ IsNaN(y) THEN NaN
    ELSE OverOdd(x, OddPart(y))

\* round(100 * x) for a non-negative float x, ties to even, as the format
\* "%.2f" rounds the exact value of x: b holds the bits of 100 * x, the last
\* k of them after the binary point
RoundedAt(b, k) ==
    NatOfBits(SubSeq(b, 1, Len(b) - k))
      + (IF /\ k >= 1
            /\ b[Len(b) - k + 1] = 1
            /\ \/ \E j \in (Len(b) - k + 2)..Len(b) : b[j] = 1
               \/ b[Len(b) - k] = 1
         THEN 1 ELSE 0)

HundredthsOf(x) ==
    IF x.e >= 0 THEN NatOfBits(x.b \o Zeros(x.e))
    ELSE RoundedAt(PadLeft(x.b, MaxOf(Len(x.b), 1 - x.e)), -x.e)

Hundredths(f) == IF f.m = <<>> THEN 0 ELSE HundredthsOf(XMul(100, XOf(f)))

\* ------------------------------------------------------------------------
\* Raw inputs
\* ------------------------------------------------------------------------

\* Python's None, the absent value of an optional field
None == [none |-> TRUE]

\* A raw text argument: a string (sequence of characters) or not a string.
Str(chars) == [isStr |-> TRUE, chars |-> chars]
NotAStr    == [isStr |-> FALSE, chars |-> <<>>]

\* A raw numeric argument: a decimal literal num/den, or unparsable text.
Num(num, den) == [kind |-> "num", num |-> num, den |-> den]
Unparsable    == [kind |-> "text", num |-> 0, den |-> 1]
\* the text "nan", which float() accepts and int() rejects
NaNText       == [kind |-> "nan", num |-> 0, den |-> 1]
\* the decimal text of the integer 2^exp + num, for 0 <= num < 2^exp
Big(exp, num) == [kind |-> "big", num |-> num, den |-> 1, exp |-> exp]

LowerChars == <<"a","b","c","d","e","f","g","h","i","j","k","l","m",
                "n","o","p","q","r","s","t","u","v","w","x","y","z">>
UpperChars == <<"A","B","C","D","E","F","G","H","I","J","K","L","M",
                "N","O","P","Q","R","S","T","U","V","W","X","Y","Z">>
DigitChars == {"0","1","2","3","4","5","6","7","8","9"}

\* str.upper(), character by character
UpperChar(ch) ==
    IF \E i \in 1..Len(LowerChars) : LowerChars[i] = ch
    THEN UpperChars[CHOOSE i \in 1..Len(LowerChars) : LowerChars[i] = ch]
    ELSE ch

Upper(chars) == [i \in 1..Len(chars) |-> UpperChar(chars[i])]

\* str.lower(), character by character
LowerChar(ch) ==
    IF \E i \in 1..Len(UpperChars) : UpperChars[i] = ch
    THEN LowerChars[CHOOSE i \in 1..Len(UpperChars) : UpperChars[i] = ch]
    ELSE ch

Lower(chars) == [i \in 1..Len(chars) |-> LowerChar(chars[i])]

\* the text without its last character when that is a newline: "$" also
\* matches just before a newline that ends the text
BeforeFinalNewline(chars) ==
    IF Len(chars) >= 1 /\ chars[Len(chars)] = "\n"
    THEN SubSeq(chars, 1, Len(chars) - 1)
    ELSE chars

OnlyAlnum(chars) ==
    /\ Len(chars) >= 1
    /\ \A i \in 1..Len(chars) :
          \/ \E k \in 1..Len(UpperChars) : UpperChars[k] = chars[i]
          \/ chars[i] \in DigitChars

\* re.match(r'^[A-Z0-9]+$', s)
MatchesAlnum(chars) == OnlyAlnum(chars) \/ OnlyAlnum(BeforeFinalNewline(chars))

\* s.endswith(suffix)
EndsWith(chars, suffix) ==
    /\ Len(chars) >= Len(suffix)
    /\ SubSeq(chars, Len(chars) - Len(suffix) + 1, Len(chars)) = suffix

USDT == <<"U","S","D","T">>
BUY  == <<"B","U","Y">>
SELL == <<"S","E","L","L">>

\* Python truthiness of a raw text argument: None and "" are falsy
Truthy(raw) == raw.isStr /\ Len(raw.chars) > 0

\* ------------------------------------------------------------------------
\* Validators (validators.py).  Each returns [ok, v]: ok = FALSE stands for
\* raising ValidationError, v is the returned value.
\* ------------------------------------------------------------------------

Invalid == [ok |-> FALSE, v |-> None]
Valid(x) == [ok |-> TRUE, v |-> x]

\* variant: the pattern and the suffix are tested on the text as given
validate_symbol_AsGiven(symbol) ==
    IF ~Truthy(symbol) THEN Invalid
    ELSE IF ~MatchesAlnum(symbol.chars) THEN Invalid
    ELSE IF ~EndsWith(symbol.chars, USDT) THEN Invalid
    ELSE Valid(Upper(symbol.chars))

validate_symbol(symbol) ==
    IF ~Truthy(symbol) THEN Invalid
    ELSE IF ~MatchesAlnum(Upper(symbol.chars)) THEN Invalid
    ELSE IF ~EndsWith(Upper(symbol.chars), USDT) THEN Invalid
    ELSE Valid(Upper(symbol.chars))

validate_side(side) ==
    IF ~Truthy(side) THEN Invalid
    ELSE IF Upper(side.chars) \notin {BUY, SELL} THEN Invalid
    ELSE Valid(Upper(side.chars))

\* float(x): [ok, v]; ok = FALSE stands for ValueError / TypeError
ParseFloat(raw) ==
    CASE raw.kind = "num" -> Valid(FromRatio(raw.num, raw.den))
      [] raw.kind = "nan" -> Valid(NaN)
      [] raw.kind = "big" ->
           Valid(Round(0, XNum(<<1>> \o PadLeft(BitsOfNat(raw.num), raw.exp), 0), FALSE))
      [] OTHER -> Invalid

\* the "<= 0" check that follows float(x) in validate_quantity / validate_price
RejectNonPositive(p) ==
    IF ~p.ok THEN Invalid
    ELSE IF FLeq(p.v, FZero) THEN Invalid
    ELSE p

validate_quantity(quantity) == RejectNonPositive(ParseFloat(quantity))

validate_price(price) == RejectNonPositive(ParseFloat(price))

\* int(x) of a decimal literal succeeds only for an integer literal
validate_positive_integer(value) ==
    IF value.kind # "num" \/ value.den # 1 THEN Invalid
    ELSE IF value.num <= 0 THEN Invalid
    ELSE Valid(value.num)

\* variant: equal stop and limit prices are rejected as well
validate_stop_limit_prices_Strict(stop_price, limit_price, side) ==
    IF side = BUY
    THEN FLess(limit_price, stop_price)
    ELSE FLess(stop_price, limit_price)

\* TRUE when the check passes, FALSE when it raises ValidationError
validate_stop_limit_prices(stop_price, limit_price, side) ==
    IF side = BUY
    THEN ~FLess(stop_price, limit_price)
    ELSE ~FLess(limit_price, stop_price)

\* ------------------------------------------------------------------------
\* Bounds and input domains
\* ------------------------------------------------------------------------

\* largest num_grids given to setup_grid_strategy
MaxGrids == 4

\* largest num_orders given to execute_twap
MaxOrders == 3

BTCUSDT_lower == <<"b","t","c","u","s","d","t">>

SymbolInputs == { Str(BTCUSDT_lower), Str(<<"b","t","c">>), Str(<<"B","-","U","S","D","T">>),
                  Str(<<>>), NotAStr }

SideInputs == { Str(<<"b","u","y">>), Str(SELL), Str(<<"h","o","l","d">>) }

QtyInputs == { Unparsable, NaNText, Num(-1, 1), Num(0, 1), Num(1, 1) }

PriceInputs == { Unparsable, NaNText, Num(0, 1), Num(1, 1), Num(2, 1) }

\* the last two are "9007199254740992" and "9007199254740994", neighbours
\* among the doubles
GridPriceInputs == { Unparsable, Num(0, 1), Num(2, 5), Num(1, 1), Num(9, 5), Num(2, 1),
                     Big(MantBits, 0), Big(MantBits, 2) }

GridCountInputs == { Unparsable } \cup { Num(n, 1) : n \in 0..MaxGrids }

TwapQtyInputs == { Unparsable, Num(0, 1), Num(1, 1), Num(9, 5) }

TwapCountInputs == { Unparsable } \cup { Num(n, 1) : n \in 0..MaxOrders }

IntervalInputs == { Num(0, 1), Num(30, 1) }

\* prices the exchange may report for the symbol
TickerPrices == { Num(1, 2), Num(1, 1), Num(3, 2), Num(3, 1) }

OrderIds == { 7 }

\* what the exchange reports about an executed TWAP slice: the texts under
\* 'avgPrice' and 'executedQty' of the response, None for an absent key
Fill(avgPrice, executedQty) == [avgPrice |-> avgPrice, executedQty |-> executedQty]

Fills == { Fill(None, Num(1, 1)), Fill(Num(1, 10), Num(1, 1)), Fill(Num(1, 4), Num(1, 1)),
           Fill(Num(1, 10), None) }

\* longest text given to validate_symbol when it is called on its own
MaxSymLen == 5

\* the characters those texts are made of: letters of both cases, a digit,
\* a character outside [A-Za-z0-9] and the newline
SymbolChars == { "u", "S", "d", "T", "1", "-", "\n" }

SymbolTexts == UNION { [1..n -> SymbolChars] : n \in 0..MaxSymLen }

\* the numbers and texts given to validate_quantity / validate_price
NumberInputs == { Unparsable, NaNText, Num(-1, 1), Num(-1, 2), Num(0, 1), Num(1, 2),
                  Num(1, 1), Num(2, 1) }

PlacerOps   == { "market", "limit", "stop_limit", "grid", "twap", "oco" }
ManagerOps  == { "get_open_orders", "cancel_order", "cancel_all_orders", "get_order_status" }
ValidatorOps == { "validate_symbol", "validate_quantity", "validate_price",
                  "validate_stop_limit_prices" }

ArgsOf(o) ==
    CASE o = "market" ->
           [symbol : SymbolInputs, side : SideInputs, quantity : QtyInputs]
      [] o = "limit" ->
           [symbol : SymbolInputs, side : SideInputs, quantity : QtyInputs,
            price : PriceInputs]
      [] o = "stop_limit" ->
           [symbol : SymbolInputs, side : SideInputs, quantity : {Num(0, 1), Num(1, 1)},
            stop_price : PriceInputs, limit_price : PriceInputs]
      [] o = "grid" ->
           [symbol : SymbolInputs, quantity_per_grid : {Num(0, 1), Num(1, 1)},
            lower_price : GridPriceInputs, upper_price : GridPriceInputs,
            num_grids : GridCountInputs]
      [] o = "twap" ->
           [symbol : SymbolInputs, side : SideInputs, total_quantity : TwapQtyInputs,
            num_orders : TwapCountInputs, interval_seconds : IntervalInputs]
      [] o = "oco" ->
           [symbol : SymbolInputs, side : SideInputs, quantity : {Num(0, 1), Num(1, 1)},
            price : {Unparsable, Num(2, 1)}, stop_price : {Num(0, 1), Num(1, 1)},
            stop_limit_price : {Unparsable, Num(1, 1)}]
      [] o = "get_open_orders" ->
           [symbol : SymbolInputs]
      [] o \in {"cancel_order", "get_order_status"} ->
           [symbol : SymbolInputs, order_id : OrderIds]
      [] o = "cancel_all_orders" ->
           [symbol : SymbolInputs]
      [] o = "validate_symbol" ->
           [symbol : { Str(t) : t \in SymbolTexts } \cup { NotAStr }]
      [] o = "validate_quantity" ->
           [quantity : NumberInputs]
      [] o = "validate_price" ->
           [price : NumberInputs]
      [] o = "validate_stop_limit_prices" ->
           [stop_price : {NaNText, Num(1, 1), Num(2, 1)},
            limit_price : {NaNText, Num(1, 1), Num(2, 1)},
            side : {Str(BUY), Str(SELL)}]

\* ------------------------------------------------------------------------
\* Command lines: a script, len(sys.argv), the order manager's command word
\* and the positional arguments main() reads into its local variables
\* ------------------------------------------------------------------------

\* len(sys.argv) each placer script accepts
Arity(script) ==
    CASE script = "market" -> 4
      [] script = "limit" -> 5
      [] script \in {"stop_limit", "grid", "twap"} -> 6
      [] script = "oco" -> 7

list_cmd       == <<"l","i","s","t">>
cancel_cmd     == <<"c","a","n","c","e","l">>
cancel_all_cmd == <<"c","a","n","c","e","l","_","a","l","l">>
status_cmd     == <<"s","t","a","t","u","s">>

\* command words given on the command line: the four commands, one of them
\* in another case, and a word that is no command
CommandWords == { list_cmd, <<"L","i","s","t">>, cancel_cmd, cancel_all_cmd, status_cmd,
                  <<"p","u","r","g","e">> }

\* command-line arguments are strings
CliSymbols == { sy \in SymbolInputs : sy.isStr }

\* the text of the order id argument
OrderIdTexts == { Num(id, 1) : id \in OrderIds } \cup { Unparsable }

CliRun(script, argc, command, argv) ==
    [script |-> script, argc |-> argc, command |-> command, argv |-> argv]

PlacerRuns(script) ==
    { CliRun(script, Arity(script), None, a) : a \in { b \in ArgsOf(script) : b.symbol.isStr } }
      \cup { CliRun(script, n, None, None) : n \in {Arity(script) - 1, Arity(script) + 1} }

\* argv of the order manager with argc entries after the script name cut to
\* what main() can read: nothing, the symbol, or the symbol and the order id
ManagerRuns ==
    { CliRun("order_manager", 1, None, None) }
      \cup { CliRun("order_manager", 2, Str(c), None) : c \in CommandWords }
      \cup { CliRun("order_manager", 3, Str(c), [symbol |-> sy]) :
                 c \in CommandWords, sy \in CliSymbols }
      \cup { CliRun("order_manager", n, Str(c), [symbol |-> sy, order_id |-> id]) :
                 n \in {4, 5}, c \in CommandWords, sy \in CliSymbols, id \in OrderIdTexts }

CliRuns == UNION { PlacerRuns(script) : script \in PlacerOps } \cup ManagerRuns

\* int(text)
ParseInt(raw) == IF raw.kind = "num" /\ raw.den = 1 THEN Valid(raw.num) ELSE Invalid

\* ------------------------------------------------------------------------
\* Argument validation and the computations that precede the try block
\* ------------------------------------------------------------------------

AllOk(rs) == \A i \in 1..Len(rs) : rs[i].ok

MarketChecked(sy, sd, q) ==
    IF AllOk(<<sy, sd, q>>)
    THEN Valid([symbol |-> sy.v, side |-> sd.v, quantity |-> q.v])
    ELSE Invalid

MarketV(a) ==
    MarketChecked(validate_symbol(a.symbol), validate_side(a.side),
                  validate_quantity(a.quantity))

LimitChecked(sy, sd, q, p) ==
    IF AllOk(<<sy, sd, q, p>>)
    THEN Valid([symbol |-> sy.v, side |-> sd.v, quantity |-> q.v, price |-> p.v])
    ELSE Invalid

LimitV(a) ==
    LimitChecked(validate_symbol(a.symbol), validate_side(a.side),
                 validate_quantity(a.quantity), validate_price(a.price))

StopLimitChecked(sy, sd, q, sp, lp) ==
    IF AllOk(<<sy, sd, q, sp, lp>>) /\ validate_stop_limit_prices(sp.v, lp.v, sd.v)
    THEN Valid([symbol |-> sy.v, side |-> sd.v, quantity |-> q.v,
                stop_price |-> sp.v, limit_price |-> lp.v])
    ELSE Invalid

StopLimitV(a) ==
    StopLimitChecked(validate_symbol(a.symbol), validate_side(a.side),
                     validate_quantity(a.quantity), validate_price(a.stop_price),
                     validate_price(a.limit_price))

OcoChecked(sy, sd, q, p, sp, sl) ==
    IF AllOk(<<sy, sd, q, p, sp, sl>>)
    THEN Valid([symbol |-> sy.v, side |-> sd.v, quantity |-> q.v, price |-> p.v,
                stop_price |-> sp.v, stop_limit_price |-> sl.v])
    ELSE Invalid

OcoV(a) ==
    OcoChecked(validate_symbol(a.symbol), validate_side(a.side),
               validate_quantity(a.quantity), validate_price(a.price),
               validate_price(a.stop_price), validate_price(a.stop_limit_price))

\* variant: the division by num_orders is left out
QuantityPerOrder_Undivided(total_quantity, num_orders) == total_quantity

\* quantity_per_order = total_quantity / num_orders
QuantityPerOrder(total_quantity, num_orders) == FDivInt(total_quantity, num_orders)

TwapChecked(sy, sd, q, n, t) ==
    IF AllOk(<<sy, sd, q, n, t>>)
    THEN Valid([symbol |-> sy.v, side |-> sd.v, total_quantity |-> q.v,
                num_orders |-> n.v, interval_seconds |-> t.v,
                quantity_per_order |-> QuantityPerOrder(q.v, n.v)])
    ELSE Invalid

TwapV(a) ==
    TwapChecked(validate_symbol(a.symbol), validate_side(a.side),
                validate_quantity(a.total_quantity),
                validate_positive_integer(a.num_orders),
                validate_positive_integer(a.interval_seconds))

GridChecked(sy, q, lo, up, n) ==
    IF AllOk(<<sy, q, lo, up, n>>) /\ ~FLeq(up.v, lo.v)
    THEN Valid([symbol |-> sy.v, quantity_per_grid |-> q.v, lower_price |-> lo.v,
                upper_price |-> up.v, num_grids |-> n.v])
    ELSE Invalid

\* the five validator calls and the upper <= lower check of setup_grid_strategy
GridV(a) ==
    GridChecked(validate_symbol(a.symbol), validate_quantity(a.quantity_per_grid),
                validate_price(a.lower_price), validate_price(a.upper_price),
                validate_positive_integer(a.num_grids))

\* variant: the range is divided by num_grids instead of num_grids - 1
PriceStep_ByCount(lower, upper, n) == FDivInt(FSub(upper, lower), n)

\* price_step = (upper_price - lower_price) / (num_grids - 1), num_grids >= 2
PriceStep(lower, upper, n) == FDivInt(FSub(upper, lower), n - 1)

\* variant: the levels are listed from the highest down
LevelsFrom_Descending(lower, step, n) == [k \in 1..n |-> FAdd(lower, FMulInt(n - k, step))]

\* grid_prices = [lower_price + i * price_step for i in range(num_grids)]
LevelsFrom(lower, step, n) == [k \in 1..n |-> FAdd(lower, FMulInt(k - 1, step))]

GridPrices(lower, upper, n) == LevelsFrom(lower, PriceStep(lower, upper, n), n)

\* ------------------------------------------------------------------------
\* State
\* ------------------------------------------------------------------------

VARIABLES
    op,               \* the operation being called
    args,             \* its raw arguments
    pc,               \* position in its code
    v,                \* the validated arguments (None before validation)
    events,           \* calls that left the process, in order, and pauses
    logs,             \* log_order calls, in order
    outcome,          \* "none", "return" or the class of the raised error
    result,           \* the returned value
    current_price,    \* grid: the sampled market price
    grid_prices,      \* grid: the price levels
    buy_orders,       \* grid: responses of the BUY placements
    sell_orders,      \* grid: responses of the SELL placements
    idx,              \* grid / TWAP: loop index i (0-based)
    executed_orders,  \* TWAP: responses of the executed slices
    take_profit,      \* OCO: response of the take-profit leg
    cli,              \* the command line of the run (None for a direct call)
    main_pc,          \* position in main(): "none", "start", "running", "exited"
    printed,          \* what main() printed last: "none", "usage", a prefix, "success"
    exit_code,        \* the exit code of the process (-1 while it runs)
    logged,           \* the message main() wrote to its logger ("none" if none)
    avg_price         \* twap.py: the average price main() computed and the
                      \* hundredths it printed (None when it printed none)

vars == <<op, args, pc, v, events, logs, outcome, result, current_price, grid_prices,
          buy_orders, sell_orders, idx, executed_orders, take_profit,
          cli, main_pc, printed, exit_code, logged, avg_price>>

mainVars == <<cli, main_pc, printed, exit_code, logged, avg_price>>

strategyVars == <<current_price, grid_prices, buy_orders, sell_orders, idx,
                  executed_orders, take_profit>>

\* a run is either a direct call of an operation or a command line
Init ==
    /\ \/ /\ op \in PlacerOps \cup ManagerOps \cup ValidatorOps
          /\ args \in ArgsOf(op)
          /\ pc = IF op = "get_open_orders" THEN "connect" ELSE "validate"
          /\ cli = None
          /\ main_pc = "none"
       \/ /\ op = "main"
          /\ args = None
          /\ pc = "main"
          /\ cli \in CliRuns
          /\ main_pc = "start"
    /\ printed = "none"
    /\ exit_code = -1
    /\ logged = "none"
    /\ avg_price = None
    /\ v = None
    /\ events = <<>>
    /\ logs = <<>>
    /\ outcome = "none"
    /\ result = None
    /\ current_price = None
    /\ grid_prices = <<>>
    /\ buy_orders = <<>>
    /\ sell_orders = <<>>
    /\ idx = 0
    /\ executed_orders = <<>>
    /\ take_profit = None

\* ------------------------------------------------------------------------
\* The exchange as seen by the process
\* ------------------------------------------------------------------------

\* how one exchange call ends: normally, with BinanceAPIException, or with
\* any other exception (network, environment)
CallOutcomes == { "ok", "api_error", "error" }

ExcOf(o) == IF o = "api_error" THEN "BinanceAPIException" ELSE "Exception"

\* get_binance_client(): missing credentials raise before anything is sent;
\* otherwise Client(...) and futures_ping() are called and either may fail
ClientOutcomes == { "ok", "no_credentials", "init_api_error", "init_error",
                    "ping_api_error", "ping_error" }

ClientEvents(o) ==
    CASE o = "no_credentials" -> <<>>
      [] o = "init_api_error" -> << [kind |-> "client_init", res |-> "api_error"] >>
      [] o = "init_error" -> << [kind |-> "client_init", res |-> "error"] >>
      [] o = "ping_api_error" -> << [kind |-> "client_init", res |-> "ok"],
                                    [kind |-> "futures_ping", res |-> "api_error"] >>
      [] o = "ping_error" -> << [kind |-> "client_init", res |-> "ok"],
                                [kind |-> "futures_ping", res |-> "error"] >>
      [] OTHER -> << [kind |-> "client_init", res |-> "ok"],
                     [kind |-> "futures_ping", res |-> "ok"] >>

ClientExc(o) ==
    IF o \in {"init_api_error", "ping_api_error"} THEN "BinanceAPIException" ELSE "Exception"

OrderEvent(params, o) == [kind |-> "create_order", params |-> params, res |-> o]

\* the exchange's response to the order submitted as event number n
Response(n, params) == [orderId |-> n, params |-> params]

\* the record r (an order event or a response) with the reported fill f
Filled(r, f) == [x \in DOMAIN r \cup {"fill"} |-> IF x = "fill" THEN f ELSE r[x]]

NetworkKinds == { "client_init", "futures_ping", "symbol_ticker", "create_order",
                  "get_open_orders", "cancel_order", "cancel_all_open_orders", "get_order" }

\* ------------------------------------------------------------------------
\* log_order (logger.py) and the except handlers of the placers
\* ------------------------------------------------------------------------

BOTH == <<"B","O","T","H">>

LogRec(order_type, symbol, side, quantity, price, stop_price, response, error) ==
    [order_type |-> order_type, symbol |-> symbol, side |-> side, quantity |-> quantity,
     price |-> price, stop_price |-> stop_price, response |-> response, error |-> error]

\* the log_order call of the operation with the given outcome: response on
\* success, error in the except handlers
OpLog(o, val, response, error) ==
    CASE o = "market" ->
           LogRec("MARKET", val.symbol, val.side, val.quantity, None, None, response, error)
      [] o = "limit" ->
           LogRec("LIMIT", val.symbol, val.side, val.quantity, val.price, None,
                  response, error)
      [] o = "stop_limit" ->
           LogRec("STOP_LIMIT", val.symbol, val.side, val.quantity, val.limit_price,
                  val.stop_price, response, error)
      [] o = "grid" ->
           LogRec("GRID", val.symbol, BOTH, FMulInt(val.num_grids, val.quantity_per_grid),
                  None, None, response, error)
      [] o = "twap" ->
           LogRec("TWAP", val.symbol, val.side, val.total_quantity, None, None,
                  response, error)
      [] o = "oco" ->
           LogRec("OCO", val.symbol, val.side, val.quantity, val.price, val.stop_price,
                  response, error)

Exc(cls) == [exc |-> cls]

\* an exception of class cls reaches the outer except handlers of the
\* running operation: it is logged through log_order and re-raised (the
\* order manager only writes a log line and re-raises)
Raise(cls) ==
    /\ outcome' = cls
    /\ pc' = "done"
    /\ logs' = IF op \in PlacerOps THEN Append(logs, OpLog(op, v, None, Exc(cls))) ELSE logs
    /\ result' = None

\* normal return of the operation with value r after logging response lr
Return(r, lr) ==
    /\ outcome' = "return"
    /\ pc' = "done"
    /\ logs' = Append(logs, OpLog(op, v, lr, None))
    /\ result' = r

\* ------------------------------------------------------------------------
\* Actions
\* ------------------------------------------------------------------------

\* the validator calls at the head of an operation: r is their result
ValidationStep(r) ==
    IF r.ok
    THEN /\ v' = r.v
         /\ pc' = "connect"
         /\ UNCHANGED <<outcome, result>>
    ELSE /\ outcome' = "ValidationError"
         /\ pc' = "done"
         /\ UNCHANGED <<v, result>>

\* what a validator called on its own returns (ok, with the value) or
\* raises (not ok); validate_stop_limit_prices is given floats and returns
\* nothing
ValidatorResult(o, a) ==
    CASE o = "validate_symbol" -> validate_symbol(a.symbol)
      [] o = "validate_quantity" -> validate_quantity(a.quantity)
      [] o = "validate_price" -> validate_price(a.price)
      [] o = "validate_stop_limit_prices" ->
           IF validate_stop_limit_prices(ParseFloat(a.stop_price).v,
                                         ParseFloat(a.limit_price).v, a.side.chars)
           THEN Valid(None) ELSE Invalid

\* a call of one validator
ValidatorCall ==
    /\ op \in ValidatorOps /\ pc = "validate"
    /\ \E r \in {ValidatorResult(op, args)} :
          IF r.ok
          THEN outcome' = "return" /\ result' = r.v
          ELSE outcome' = "ValidationError" /\ UNCHANGED result
    /\ pc' = "done"
    /\ UNCHANGED <<mainVars, op, args, v, events, logs, strategyVars>>

PlaceMarketValidate ==
    /\ op = "market" /\ pc = "validate"
    /\ \E r \in {MarketV(args)} : ValidationStep(r)
    /\ UNCHANGED <<mainVars, op, args, events, logs, strategyVars>>

PlaceLimitValidate ==
    /\ op = "limit" /\ pc = "validate"
    /\ \E r \in {LimitV(args)} : ValidationStep(r)
    /\ UNCHANGED <<mainVars, op, args, events, logs, strategyVars>>

\* variant: the client is obtained before the arguments are validated
PlaceStopLimitValidate_ClientFirst ==
    /\ op = "stop_limit" /\ pc = "validate"
    /\ events' = events \o ClientEvents("ok")
    /\ \E r \in {StopLimitV(args)} : ValidationStep(r)
    /\ UNCHANGED <<mainVars, op, args, logs, strategyVars>>

PlaceStopLimitValidate ==
    /\ op = "stop_limit" /\ pc = "validate"
    /\ \E r \in {StopLimitV(args)} : ValidationStep(r)
    /\ UNCHANGED <<mainVars, op, args, events, logs, strategyVars>>

OcoValidate ==
    /\ op = "oco" /\ pc = "validate"
    /\ \E r \in {OcoV(args)} : ValidationStep(r)
    /\ UNCHANGED <<mainVars, op, args, events, logs, strategyVars>>

TwapValidate ==
    /\ op = "twap" /\ pc = "validate"
    /\ \E r \in {TwapV(args)} : ValidationStep(r)
    /\ UNCHANGED <<mainVars, op, args, events, logs, strategyVars>>

\* validation of setup_grid_strategy and the computation of the levels;
\* with num_grids = 1 the division by num_grids - 1 raises ZeroDivisionError
GridValidate ==
    /\ op = "grid" /\ pc = "validate"
    /\ \E r \in {GridV(args)} :
           IF ~r.ok
           THEN /\ outcome' = "ValidationError"
                /\ pc' = "done"
                /\ UNCHANGED <<v, grid_prices>>
           ELSE IF r.v.num_grids = 1
           THEN /\ outcome' = "ZeroDivisionError"
                /\ pc' = "done"
                /\ UNCHANGED <<v, grid_prices>>
           ELSE /\ v' = r.v
                /\ grid_prices' = GridPrices(r.v.lower_price, r.v.upper_price, r.v.num_grids)
                /\ pc' = "connect"
                /\ UNCHANGED outcome
    /\ UNCHANGED <<mainVars, op, args, events, logs, result, current_price, buy_orders, sell_orders,
                   idx, executed_orders, take_profit>>

\* cancel_order, cancel_all_orders, get_order_status: validate_symbol is the
\* first statement of the try block
ManagerValidate ==
    /\ op \in {"cancel_order", "cancel_all_orders", "get_order_status"}
    /\ pc = "validate"
    /\ \E r \in {validate_symbol(args.symbol)} :
           ValidationStep(IF r.ok THEN Valid([symbol |-> r.v]) ELSE Invalid)
    /\ UNCHANGED <<mainVars, op, args, events, logs, strategyVars>>

AfterConnect(o) ==
    CASE o \in {"market", "limit", "stop_limit"} -> "submit"
      [] o = "grid" -> "ticker"
      [] o = "twap" -> "loop"
      [] o = "oco"  -> "take_profit"
      [] OTHER      -> "query"

\* client = get_binance_client()
GetClient ==
    /\ pc = "connect"
    /\ \E o \in ClientOutcomes :
          /\ events' = events \o ClientEvents(o)
          /\ IF o = "ok"
             THEN /\ pc' = AfterConnect(op)
                  /\ UNCHANGED <<logs, outcome, result>>
             ELSE Raise(ClientExc(o))
    /\ UNCHANGED <<mainVars, op, args, v, strategyVars>>

\* the futures_create_order parameters of the single-order placers
SingleParams(o, val) ==
    CASE o = "market" ->
           [symbol |-> val.symbol, side |-> val.side, type |-> "MARKET",
            quantity |-> val.quantity]
      [] o = "limit" ->
           [symbol |-> val.symbol, side |-> val.side, type |-> "LIMIT",
            timeInForce |-> "GTC", quantity |-> val.quantity, price |-> val.price]
      [] o = "stop_limit" ->
           [symbol |-> val.symbol, side |-> val.side, type |-> "STOP",
            timeInForce |-> "GTC", quantity |-> val.quantity, price |-> val.limit_price,
            stopPrice |-> val.stop_price]

\* variant: a submission rejected by the exchange is retried once
SubmitOrder_Retry ==
    /\ op \in {"market", "limit", "stop_limit"} /\ pc = "submit"
    /\ \E o \in CallOutcomes :
          IF o = "api_error"
          THEN \E o2 \in CallOutcomes :
                 /\ events' = events \o << OrderEvent(SingleParams(op, v), o),
                                           OrderEvent(SingleParams(op, v), o2) >>
                 /\ IF o2 = "ok"
                    THEN Return(Response(Len(events) + 2, SingleParams(op, v)),
                                Response(Len(events) + 2, SingleParams(op, v)))
                    ELSE Raise(ExcOf(o2))
          ELSE /\ events' = Append(events, OrderEvent(SingleParams(op, v), o))
               /\ IF o = "ok"
                  THEN Return(Response(Len(events) + 1, SingleParams(op, v)),
                              Response(Len(events) + 1, SingleParams(op, v)))
                  ELSE Raise(ExcOf(o))
    /\ UNCHANGED <<mainVars, op, args, v, strategyVars>>

\* place_market_order / place_limit_order / place_stop_limit_order: the one
\* submission, its logging and the return or re-raise
SubmitOrder ==
    /\ op \in {"market", "limit", "stop_limit"} /\ pc = "submit"
    /\ \E o \in CallOutcomes :
          /\ events' = Append(events, OrderEvent(SingleParams(op, v), o))
          /\ IF o = "ok"
             THEN Return(Response(Len(events) + 1, SingleParams(op, v)),
                         Response(Len(events) + 1, SingleParams(op, v)))
             ELSE Raise(ExcOf(o))
    /\ UNCHANGED <<mainVars, op, args, v, strategyVars>>

\* the futures_symbol_ticker call with its outcome and the price reported
TickerEvent(symbol, o, price) ==
    [kind |-> "symbol_ticker", symbol |-> symbol, res |-> o, price |-> price]

\* variant: a failed price fetch is swallowed and a default price is used
GridTicker_Fallback ==
    /\ op = "grid" /\ pc = "ticker"
    /\ \/ \E p \in TickerPrices :
             /\ events' = Append(events, TickerEvent(v.symbol, "ok", p))
             /\ current_price' = FromRatio(p.num, p.den)
       \/ \E o \in CallOutcomes \ {"ok"} :
             /\ events' = Append(events, TickerEvent(v.symbol, o, None))
             /\ current_price' = FromInt(1)
    /\ pc' = "loop"
    /\ UNCHANGED <<logs, outcome, result>>
    /\ UNCHANGED <<mainVars, op, args, v, grid_prices, buy_orders, sell_orders, idx,
                   executed_orders, take_profit>>

\* ticker = client.futures_symbol_ticker(symbol); current_price = float(...)
GridTicker ==
    /\ op = "grid" /\ pc = "ticker"
    /\ \/ \E p \in TickerPrices :
             /\ events' = Append(events, TickerEvent(v.symbol, "ok", p))
             /\ current_price' = FromRatio(p.num, p.den)
             /\ pc' = "loop"
             /\ UNCHANGED <<logs, outcome, result>>
       \/ \E o \in CallOutcomes \ {"ok"} :
             /\ events' = Append(events, TickerEvent(v.symbol, o, None))
             /\ Raise(ExcOf(o))
             /\ UNCHANGED current_price
    /\ UNCHANGED <<mainVars, op, args, v, grid_prices, buy_orders, sell_orders, idx,
                   executed_orders, take_profit>>

GridParams(side, price) ==
    [symbol |-> v.symbol, side |-> side, type |-> "LIMIT", timeInForce |-> "GTC",
     quantity |-> v.quantity_per_grid, price |-> price]

\* side chosen for a level: BUY below the sampled price, SELL above, else none
\* variant: "price <= current_price" decides a buy
LevelSide_EqualBuys(price, current) ==
    IF FLeq(price, current) THEN BUY
    ELSE IF FLess(current, price) THEN SELL
    ELSE <<>>

LevelSide(price, current) ==
    IF FLess(price, current) THEN BUY
    ELSE IF FLess(current, price) THEN SELL
    ELSE <<>>

\* end of one iteration of the grid loop: next level, or after the last
\* level the result is built, logged and returned
GridAdvance(buys, sells) ==
    IF idx + 1 < v.num_grids
    THEN /\ idx' = idx + 1
         /\ UNCHANGED <<pc, logs, outcome, result>>
    ELSE /\ idx' = idx + 1
         /\ Return([buy_orders |-> buys, sell_orders |-> sells, grid_prices |-> grid_prices,
                    current_price |-> current_price],
                   [buy_count |-> Len(buys), sell_count |-> Len(sells)])

\* variant: every placed order joins buy_orders
GridPlaced_AllBuys(side, order) ==
    /\ buy_orders' = Append(buy_orders, order)
    /\ UNCHANGED sell_orders
    /\ GridAdvance(buy_orders', sell_orders)

\* the placement of a level succeeded: the response joins its list
GridPlaced(side, order) ==
    IF side = BUY
    THEN /\ buy_orders' = Append(buy_orders, order)
         /\ UNCHANGED sell_orders
         /\ GridAdvance(buy_orders', sell_orders)
    ELSE /\ sell_orders' = Append(sell_orders, order)
         /\ UNCHANGED buy_orders
         /\ GridAdvance(buy_orders, sell_orders')

\* variant: no handler inside the loop, a rejection ends the strategy
GridRejected_Abort ==
    /\ UNCHANGED <<buy_orders, sell_orders, idx>>
    /\ Raise("BinanceAPIException")

\* "except BinanceAPIException" inside the loop: logged, printed, next level
GridRejected ==
    /\ UNCHANGED <<buy_orders, sell_orders>>
    /\ GridAdvance(buy_orders, sell_orders)

\* any other exception leaves the loop and reaches the outer handlers
GridUnexpected ==
    /\ UNCHANGED <<buy_orders, sell_orders, idx>>
    /\ Raise("Exception")

\* one iteration of "for i, price in enumerate(grid_prices)"
GridLevel ==
    /\ op = "grid" /\ pc = "loop"
    /\ \E price \in {grid_prices[idx + 1]}, n \in {Len(events) + 1} :
         \E side \in {LevelSide(price, current_price)} :
           IF side = <<>>
           THEN /\ UNCHANGED <<events, buy_orders, sell_orders>>
                /\ GridAdvance(buy_orders, sell_orders)
           ELSE \E o \in CallOutcomes :
                  /\ events' = Append(events, OrderEvent(GridParams(side, price), o))
                  /\ CASE o = "ok" -> GridPlaced(side, Response(n, GridParams(side, price)))
                       [] o = "api_error" -> GridRejected
                       [] o = "error" -> GridUnexpected
    /\ UNCHANGED <<mainVars, op, args, v, current_price, grid_prices, executed_orders, take_profit>>

TwapParams ==
    [symbol |-> v.symbol, side |-> v.side, type |-> "MARKET",
     quantity |-> v.quantity_per_order]

\* variant: a run without any executed slice ends as a failure
TwapFinish_FailWhenEmpty(orders) ==
    IF orders = <<>>
    THEN Raise("Exception")
    ELSE Return(orders, [executed_orders |-> Len(orders), total_orders |-> v.num_orders])

\* after the last slice: log the run and return the executed orders
TwapFinish(orders) ==
    Return(orders, [executed_orders |-> Len(orders), total_orders |-> v.num_orders])

\* the slice was executed: its response is appended; a pause follows unless
\* this was the last slice
TwapExecuted(order) ==
    /\ executed_orders' = Append(executed_orders, order)
    /\ UNCHANGED idx
    /\ IF idx < v.num_orders - 1
       THEN /\ pc' = "sleep"
            /\ UNCHANGED <<logs, outcome, result>>
       ELSE TwapFinish(executed_orders')

\* variant: no handler inside the loop, a rejection ends the execution
TwapRejected_Abort ==
    /\ UNCHANGED <<executed_orders, idx>>
    /\ Raise("BinanceAPIException")

\* "except BinanceAPIException" inside the loop: logged, printed, and the
\* loop goes on with the next slice; the pause of the try body is skipped
TwapRejected ==
    /\ UNCHANGED executed_orders
    /\ IF idx < v.num_orders - 1
       THEN /\ idx' = idx + 1
            /\ UNCHANGED <<pc, logs, outcome, result>>
       ELSE /\ UNCHANGED idx
            /\ TwapFinish(executed_orders)

\* any other exception leaves the loop and reaches "except Exception"
TwapUnexpected ==
    /\ UNCHANGED <<executed_orders, idx>>
    /\ Raise("Exception")

\* one iteration of "for i in range(num_orders)" up to the pause
TwapSlice ==
    /\ op = "twap" /\ pc = "loop"
    /\ \/ \E f \in Fills :
             /\ events' = Append(events, Filled(OrderEvent(TwapParams, "ok"), f))
             /\ TwapExecuted(Filled(Response(Len(events) + 1, TwapParams), f))
       \/ /\ events' = Append(events, OrderEvent(TwapParams, "api_error"))
          /\ TwapRejected
       \/ /\ events' = Append(events, OrderEvent(TwapParams, "error"))
          /\ TwapUnexpected
    /\ UNCHANGED <<mainVars, op, args, v, current_price, grid_prices, buy_orders, sell_orders,
                   take_profit>>

\* time.sleep(interval_seconds), then the next iteration
TwapSleep ==
    /\ op = "twap" /\ pc = "sleep"
    /\ events' = Append(events, [kind |-> "sleep", seconds |-> v.interval_seconds])
    /\ idx' = idx + 1
    /\ pc' = "loop"
    /\ UNCHANGED <<mainVars, op, args, v, logs, outcome, result, current_price, grid_prices,
                   buy_orders, sell_orders, executed_orders, take_profit>>

\* the user interrupts time.sleep(interval_seconds): KeyboardInterrupt is
\* no Exception, so neither handler of execute_twap catches it and nothing
\* is handed to log_order
TwapInterrupt ==
    /\ op = "twap" /\ pc = "sleep"
    /\ events' = Append(events, [kind |-> "interrupt"])
    /\ outcome' = "KeyboardInterrupt"
    /\ pc' = "done"
    /\ UNCHANGED <<mainVars, op, args, v, logs, result, current_price, grid_prices,
                   buy_orders, sell_orders, idx, executed_orders, take_profit>>

\* variant: the closing orders are placed on the side of the position
CloseSide_Same(side) == side

\* close_side = 'SELL' if side == 'BUY' else 'BUY'
CloseSide(side) == IF side = BUY THEN SELL ELSE BUY

TakeProfitParams ==
    [symbol |-> v.symbol, side |-> CloseSide(v.side), type |-> "TAKE_PROFIT",
     timeInForce |-> "GTC", quantity |-> v.quantity, price |-> v.price,
     stopPrice |-> v.price, reduceOnly |-> "true"]

StopLossParams ==
    [symbol |-> v.symbol, side |-> CloseSide(v.side), type |-> "STOP",
     timeInForce |-> "GTC", quantity |-> v.quantity, price |-> v.stop_limit_price,
     stopPrice |-> v.stop_price, reduceOnly |-> "true"]

\* variant: a failed take-profit is swallowed and the stop is still placed
OcoTakeProfit_Tolerant ==
    /\ op = "oco" /\ pc = "take_profit"
    /\ \E o \in CallOutcomes :
          /\ events' = Append(events, OrderEvent(TakeProfitParams, o))
          /\ take_profit' = IF o = "ok" THEN Response(Len(events) + 1, TakeProfitParams)
                            ELSE None
          /\ pc' = "stop_loss"
          /\ UNCHANGED <<logs, outcome, result>>
    /\ UNCHANGED <<mainVars, op, args, v, current_price, grid_prices, buy_orders, sell_orders, idx,
                   executed_orders>>

\* the take-profit submission of place_oco_order
OcoTakeProfit ==
    /\ op = "oco" /\ pc = "take_profit"
    /\ \E o \in CallOutcomes :
          /\ events' = Append(events, OrderEvent(TakeProfitParams, o))
          /\ IF o = "ok"
             THEN /\ take_profit' = Response(Len(events) + 1, TakeProfitParams)
                  /\ pc' = "stop_loss"
                  /\ UNCHANGED <<logs, outcome, result>>
             ELSE /\ Raise(ExcOf(o))
                  /\ UNCHANGED take_profit
    /\ UNCHANGED <<mainVars, op, args, v, current_price, grid_prices, buy_orders, sell_orders, idx,
                   executed_orders>>

\* variant: a failed stop cancels the take-profit already placed
OcoStopLoss_Rollback ==
    /\ op = "oco" /\ pc = "stop_loss"
    /\ \E o \in CallOutcomes :
          IF o = "ok"
          THEN /\ events' = Append(events, OrderEvent(StopLossParams, o))
               /\ Return([take_profit |-> take_profit,
                          stop_loss |-> Response(Len(events) + 1, StopLossParams)],
                         [take_profit |-> take_profit,
                          stop_loss |-> Response(Len(events) + 1, StopLossParams)])
          ELSE /\ events' = events \o << OrderEvent(StopLossParams, o),
                                         [kind |-> "cancel_order", symbol |-> v.symbol,
                                          orderId |-> take_profit.orderId] >>
               /\ Raise(ExcOf(o))
    /\ UNCHANGED <<mainVars, op, args, v, strategyVars>>

\* the stop submission of place_oco_order, the logging and the return
OcoStopLoss ==
    /\ op = "oco" /\ pc = "stop_loss"
    /\ \E o \in CallOutcomes :
          /\ events' = Append(events, OrderEvent(StopLossParams, o))
          /\ IF o = "ok"
             THEN Return([take_profit |-> take_profit,
                          stop_loss |-> Response(Len(events) + 1, StopLossParams)],
                         [take_profit |-> take_profit,
                          stop_loss |-> Response(Len(events) + 1, StopLossParams)])
             ELSE Raise(ExcOf(o))
    /\ UNCHANGED <<mainVars, op, args, v, strategyVars>>

\* the exchange call of an order manager operation
ManagerCall(o, a, val) ==
    CASE o = "get_open_orders" ->
           [kind |-> "get_open_orders", symbol |-> IF Truthy(a.symbol) THEN val ELSE None]
      [] o = "cancel_order" ->
           [kind |-> "cancel_order", symbol |-> val, orderId |-> a.order_id]
      [] o = "cancel_all_orders" ->
           [kind |-> "cancel_all_open_orders", symbol |-> val]
      [] o = "get_order_status" ->
           [kind |-> "get_order", symbol |-> val, orderId |-> a.order_id]

\* the part of an order manager operation that follows get_binance_client();
\* in get_open_orders the symbol, when truthy, is validated only here
ManagerQuery ==
    /\ op \in ManagerOps /\ pc = "query"
    /\ \E r \in {IF op = "get_open_orders" THEN validate_symbol(args.symbol)
                   ELSE Valid(v.symbol)} :
           IF op = "get_open_orders" /\ Truthy(args.symbol) /\ ~r.ok
           THEN /\ outcome' = "ValidationError"
                /\ pc' = "done"
                /\ UNCHANGED <<events, result>>
           ELSE \E o \in CallOutcomes :
                  /\ events' = Append(events, ManagerCall(op, args, r.v))
                  /\ pc' = "done"
                  /\ IF o = "ok"
                     THEN /\ outcome' = "return"
                          /\ result' = [reply_to |-> Len(events) + 1]
                     ELSE /\ outcome' = ExcOf(o)
                          /\ UNCHANGED result
    /\ UNCHANGED <<mainVars, op, args, v, logs, strategyVars>>

\* what the except clause of main() that prints text hands to the logger:
\* the placers log a validation error, twap.py logs an interruption
LoggedWith(script, text) ==
    CASE text = "Validation Error" /\ script # "order_manager" -> "Validation error"
      [] text = "TWAP execution interrupted by user" ->
           "TWAP execution interrupted by user"
      [] OTHER -> "none"

\* sys.exit(code) after printing text
Exit(text, code) ==
    /\ printed' = text
    /\ logged' = LoggedWith(cli.script, text)
    /\ exit_code' = code
    /\ main_pc' = "exited"
    /\ UNCHANGED <<op, args, pc>>

\* main() calls operation o with arguments a
Call(o, a) ==
    /\ op' = o
    /\ args' = a
    /\ pc' = IF o = "get_open_orders" THEN "connect" ELSE "validate"
    /\ main_pc' = "running"
    /\ UNCHANGED <<printed, exit_code, logged>>

\* the printed prefix of the except clause of main() that catches an
\* exception of class exc; the exceptions raised inside the operations are
\* no ValueError
\* variant: twap.py has no except clause for KeyboardInterrupt
Handler_NoInterrupt(script, exc) ==
    CASE exc = "ValidationError" -> "Validation Error"
      [] exc = "BinanceAPIException" -> "Binance API Error"
      [] exc = "ValueError" /\ script = "order_manager" -> "Invalid order ID"
      [] OTHER -> "Error"

Handler(script, exc) ==
    CASE exc = "ValidationError" -> "Validation Error"
      [] exc = "BinanceAPIException" -> "Binance API Error"
      [] exc = "KeyboardInterrupt" /\ script = "twap" -> "TWAP execution interrupted by user"
      [] exc = "ValueError" /\ script = "order_manager" -> "Invalid order ID"
      [] OTHER -> "Error"

\* order_manager.py: cancel and status convert the order id with int()
\* inside the try block of main(); id is the result of the conversion
CallWithOrderId(o, symbol, id) ==
    IF id.ok
    THEN Call(o, [symbol |-> symbol, order_id |-> id.v])
    ELSE Exit(Handler("order_manager", "ValueError"), 1)

\* order_manager.py main(), up to the call of the operation
ManagerMain(argc, command, argv) ==
    IF argc < 2 THEN Exit("usage", 1)
    ELSE IF command = list_cmd
    THEN Call("get_open_orders", [symbol |-> IF argc > 2 THEN argv.symbol ELSE NotAStr])
    ELSE IF command = cancel_cmd
    THEN IF argc # 4 THEN Exit("usage", 1)
         ELSE CallWithOrderId("cancel_order", argv.symbol, ParseInt(argv.order_id))
    ELSE IF command = cancel_all_cmd
    THEN IF argc # 3 THEN Exit("usage", 1)
         ELSE Call("cancel_all_orders", [symbol |-> argv.symbol])
    ELSE IF command = status_cmd
    THEN IF argc # 4 THEN Exit("usage", 1)
         ELSE CallWithOrderId("get_order_status", argv.symbol, ParseInt(argv.order_id))
    ELSE Exit("Unknown command", 1)

\* main() of a script, from its start to the call of the operation
MainStart ==
    /\ main_pc = "start"
    /\ IF cli.script = "order_manager"
       THEN ManagerMain(cli.argc, IF cli.argc < 2 THEN <<>> ELSE Lower(cli.command.chars),
                        cli.argv)
       ELSE IF cli.argc # Arity(cli.script)
       THEN Exit("usage", 1)
       ELSE Call(cli.script, cli.argv)
    /\ UNCHANGED <<cli, avg_price, v, events, logs, outcome, result, strategyVars>>

\* variant: every slice weighs the same
AddFill_Unweighted(t, qty, price) ==
    [qty |-> FAdd(t.qty, FromInt(1)), cost |-> FAdd(t.cost, price)]

\* twap.py main(): "total_qty += qty; total_cost += qty * price"
AddFill(t, qty, price) == [qty |-> FAdd(t.qty, qty), cost |-> FAdd(t.cost, FMul(qty, price))]

\* twap.py main(): total_qty and total_cost after the first k orders
RECURSIVE TwapTotals(_, _)
TwapTotals(orders, k) ==
    IF k = 0 THEN [qty |-> FZero, cost |-> FZero]
    ELSE IF orders[k].fill.avgPrice = None THEN TwapTotals(orders, k - 1)
    ELSE AddFill(TwapTotals(orders, k - 1),
                 IF orders[k].fill.executedQty = None THEN FZero
                 ELSE ParseFloat(orders[k].fill.executedQty).v,
                 ParseFloat(orders[k].fill.avgPrice).v)

Shown(avg) == [value |-> avg, hundredths |-> Hundredths(avg)]

\* twap.py main(): "if total_qty > 0: avg_price = total_cost / total_qty"
\* and the print of it with two decimals
AveragePrice(t) == IF FLess(FZero, t.qty) THEN Shown(FDiv(t.cost, t.qty)) ELSE None

\* main() after the operation has returned or raised; the process ends with
\* code 0 when main() returns
MainEnd ==
    /\ main_pc = "running" /\ pc = "done"
    /\ IF outcome = "return"
       THEN Exit("success", 0)
       ELSE Exit(Handler(cli.script, outcome), 1)
    /\ avg_price' = IF cli.script = "twap" /\ outcome = "return"
                    THEN AveragePrice(TwapTotals(result, Len(result)))
                    ELSE None
    /\ UNCHANGED <<cli, v, events, logs, outcome, result, strategyVars>>

Next ==
    \/ MainStart
    \/ MainEnd
    \/ ValidatorCall
    \/ PlaceMarketValidate
    \/ PlaceLimitValidate
    \/ PlaceStopLimitValidate
    \/ OcoValidate
    \/ TwapValidate
    \/ GridValidate
    \/ ManagerValidate
    \/ GetClient
    \/ SubmitOrder
    \/ GridTicker
    \/ GridLevel
    \/ TwapSlice
    \/ TwapSleep
    \/ TwapInterrupt
    \/ OcoTakeProfit
    \/ OcoStopLoss
    \/ ManagerQuery

Spec == Init /\ [][Next]_vars

\* ------------------------------------------------------------------------
\* Observations on a run
\* ------------------------------------------------------------------------

IsOrder(e) == e.kind = "create_order"

\* the positions of events that are order submissions, in order
OrderIdx == SelectSeq([i \in 1..Len(events) |-> i], LAMBDA i : IsOrder(events[i]))

Orders == [k \in 1..Len(OrderIdx) |-> events[OrderIdx[k]]]

\* the responses of the submissions at the positions is that succeeded
ResponsesAt(is) ==
    [k \in 1..Len(is) |->
        IF "fill" \in DOMAIN events[is[k]]
        THEN [orderId |-> is[k], params |-> events[is[k]].params,
              fill |-> events[is[k]].fill]
        ELSE [orderId |-> is[k], params |-> events[is[k]].params]]

Succeeded == SelectSeq(OrderIdx, LAMBDA i : events[i].res = "ok")

SucceededOn(side) == SelectSeq(Succeeded, LAMBDA i : events[i].params.side = side)

NoNetwork == \A i \in 1..Len(events) : events[i].kind \notin NetworkKinds

\* has the user interrupted the run
Interrupted == \E i \in 1..Len(events) : events[i].kind = "interrupt"

\* the run was not interrupted and no submission failed otherwise than by
\* a rejection of the exchange
OnlyRejections ==
    /\ ~Interrupted
    /\ \A i \in 1..Len(events) : IsOrder(events[i]) => events[i].res # "error"

Count(kind) == Cardinality({ i \in 1..Len(events) : events[i].kind = kind })

\* does the call's argument record fail the validation of its operation
FailsValidation ==
    CASE op = "market"     -> ~MarketV(args).ok
      [] op = "limit"      -> ~LimitV(args).ok
      [] op = "stop_limit" -> ~StopLimitV(args).ok
      [] op = "oco"        -> ~OcoV(args).ok
      [] op = "twap"       -> ~TwapV(args).ok
      [] op = "grid"       -> ~GridV(args).ok
      [] OTHER             -> ~validate_symbol(args.symbol).ok

\* ------------------------------------------------------------------------
\* Claims
\* ------------------------------------------------------------------------

\* C1: for each of the six order-placing operations, a call whose arguments
\* fail validation ends with ValidationError and no network operation is
\* performed at any point of the call.
C1_ValidationBeforeNetwork ==
    /\ (op \in PlacerOps /\ FailsValidation) =>
          /\ NoNetwork
          /\ pc = "done" => outcome = "ValidationError"
    /\ (op \in PlacerOps /\ outcome = "ValidationError") => events = <<>> /\ result = None

C1_Witness ==
    /\ op \in PlacerOps /\ FailsValidation
    /\ pc = "done" /\ outcome = "ValidationError"

\* C2 as stated: for get_open_orders with a symbol, cancel_order,
\* cancel_all_orders and get_order_status, an invalid symbol gives
\* ValidationError and the exchange accessor has not been touched.
C2_ManagerValidatesFirst ==
    (op \in ManagerOps /\ Truthy(args.symbol) /\ FailsValidation) =>
       /\ NoNetwork
       /\ pc = "done" => outcome = "ValidationError"

\* C3: when the only failures are exchange rejections of level placements,
\* setup_grid_strategy attempts every level different from the current
\* price exactly once, in order, returns normally, and its buy and sell
\* lists are exactly the responses of the placements that succeeded.
C3_GridToleratesRejections ==
    (op = "grid" /\ pc = "done" /\ current_price # None /\ OnlyRejections) =>
       /\ outcome = "return"
       /\ [k \in 1..Len(Orders) |-> Orders[k].params.price]
             = SelectSeq(grid_prices, LAMBDA p : p # current_price)
       /\ result.buy_orders = ResponsesAt(SucceededOn(BUY))
       /\ result.sell_orders = ResponsesAt(SucceededOn(SELL))

C3_Witness ==
    /\ op = "grid" /\ pc = "done" /\ outcome = "return"
    /\ \E i, j, k \in 1..Len(events) :
          /\ i < j /\ j < k
          /\ IsOrder(events[i]) /\ events[i].res = "ok"
          /\ IsOrder(events[j]) /\ events[j].res = "api_error"
          /\ IsOrder(events[k]) /\ events[k].res = "ok"

\* C4 as stated: an error of any kind raised by a submission inside the
\* grid or TWAP loop is suppressed, so once the loop has been entered the
\* call returns normally with the partial results.
C4_LoopSuppressesAnyError ==
    (op \in {"grid", "twap"} /\ pc = "done" /\ Len(Orders) > 0 /\ ~Interrupted)
       => outcome = "return"

\* has the submission of the given order type failed in this run
Failed(type) ==
    \E i \in 1..Len(events) :
       IsOrder(events[i]) /\ events[i].params.type = type /\ events[i].res # "ok"

Attempted(type) ==
    \E i \in 1..Len(events) : IsOrder(events[i]) /\ events[i].params.type = type

IsCancel(e) == e.kind \in {"cancel_order", "cancel_all_open_orders"}

\* C5: in place_oco_order, when the take-profit submission fails with any
\* error, the stop submission is never attempted, no result is returned and
\* that same error is the outcome of the call.
C5_TakeProfitFailureStops ==
    (op = "oco" /\ Failed("TAKE_PROFIT")) =>
       /\ ~Attempted("STOP")
       /\ pc = "done"
       /\ outcome = ExcOf(events[Len(events)].res)
       /\ events[Len(events)].params.type = "TAKE_PROFIT"
       /\ result = None

C5_Witness ==
    /\ op = "oco" /\ pc = "done"
    /\ Failed("TAKE_PROFIT")
    /\ outcome = "BinanceAPIException"

\* C6: in place_oco_order, when the stop submission fails after the
\* take-profit succeeded, the error is the outcome of the call at once, the
\* take-profit response is not returned, and no cancel call is issued in
\* this or any other run of place_oco_order.
C6_NoPartialPairRecovery ==
    op = "oco" =>
       /\ \A i \in 1..Len(events) : ~IsCancel(events[i])
       /\ Failed("STOP") =>
             /\ pc = "done"
             /\ outcome = ExcOf(events[Len(events)].res)
             /\ events[Len(events)].params.type = "STOP"
             /\ result = None
             /\ \E i \in 1..Len(events) :
                   /\ IsOrder(events[i]) /\ events[i].params.type = "TAKE_PROFIT"
                   /\ events[i].res = "ok"
                   /\ take_profit = [orderId |-> i, params |-> events[i].params]

C6_Witness ==
    /\ op = "oco" /\ pc = "done"
    /\ Failed("STOP")
    /\ take_profit # None

\* C7 as stated: in execute_twap every slice submission that is not the
\* last one is followed by a pause of interval_seconds before the next
\* submission, whatever its outcome, and a completed run of num_orders
\* slices holds exactly num_orders - 1 pauses.
C7_PausesBetweenSlices ==
    op = "twap" =>
       /\ \A i \in 1..(Len(events) - 1) :
             IsOrder(events[i]) =>
                \/ events[i + 1] = [kind |-> "sleep", seconds |-> v.interval_seconds]
                \/ events[i + 1].kind = "interrupt"
       /\ (pc = "done" /\ outcome = "return") => Count("sleep") = v.num_orders - 1

\* C8: in execute_twap, when the only failures are exchange failures of
\* slices, exactly num_orders submissions are attempted, the call returns
\* normally and the returned list is exactly the responses of the slices
\* that succeeded, in submission order.
C8_TwapToleratesRejections ==
    (op = "twap" /\ pc = "done" /\ Len(Orders) > 0 /\ OnlyRejections) =>
       /\ outcome = "return"
       /\ Len(Orders) = v.num_orders
       /\ result = ResponsesAt(Succeeded)

C8_Witness ==
    /\ op = "twap" /\ pc = "done" /\ outcome = "return"
    /\ \E i, j \in 1..Len(events) :
          /\ i < j
          /\ IsOrder(events[i]) /\ events[i].res = "api_error"
          /\ IsOrder(events[j]) /\ events[j].res = "ok"

\* the quantities of the slices submitted so far
SliceQuantities == [k \in 1..Len(Orders) |-> Orders[k].params.quantity]

\* the float sum q[1] + ... + q[k], left to right
RECURSIVE FloatSum(_, _)
FloatSum(q, k) == IF k = 0 THEN FZero ELSE FAdd(FloatSum(q, k - 1), q[k])

\* the exact sum of k copies of the float q
ExactSum(k, q) == XMul(k, XOf(q))

\* n units in the last place of the float x
Ulps(n, x) == XNum(BitsOfNat(n), x.e)

\* every slice submitted is a MARKET order for the validated symbol and
\* side carrying the quotient total_quantity / num_orders
SlicesWellFormed ==
    \A k \in 1..Len(Orders) :
       Orders[k].params = [symbol |-> validate_symbol(args.symbol).v,
                           side |-> validate_side(args.side).v,
                           type |-> "MARKET",
                           quantity |-> FDivInt(v.total_quantity, v.num_orders)]

TwapCompleted == op = "twap" /\ pc = "done" /\ outcome = "return" /\ OnlyRejections

\* C9 as stated: execute_twap submits exactly num_orders MARKET slices for
\* the validated symbol and side, each of quantity total_quantity /
\* num_orders, and the slice quantities sum to exactly total_quantity
\* (whether summed as floats or as exact numbers).
C9_SlicesSumExactly ==
    TwapCompleted =>
       /\ Len(Orders) = v.num_orders
       /\ SlicesWellFormed
       /\ \/ FloatSum(SliceQuantities, Len(Orders)) = v.total_quantity
          \/ /\ XLeq(ExactSum(Len(Orders), SliceQuantities[1]), XOf(v.total_quantity))
             /\ XLeq(XOf(v.total_quantity), ExactSum(Len(Orders), SliceQuantities[1]))

\* C9 amended: execute_twap submits exactly num_orders MARKET slices for
\* the validated symbol and side, each of quantity total_quantity /
\* num_orders rounded to a float, and the slice quantities sum to
\* total_quantity up to num_orders half units in its last place.
C9_SlicesSumWithinTolerance ==
    /\ op = "twap" => SlicesWellFormed
    /\ TwapCompleted =>
          /\ Len(Orders) = v.num_orders
          /\ XLeq(XMul(2, XAbsDiff(ExactSum(Len(Orders), SliceQuantities[1]),
                                   XOf(v.total_quantity))),
                  Ulps(v.num_orders, v.total_quantity))

C9_Witness ==
    /\ TwapCompleted
    /\ v.num_orders = MaxOrders
    /\ FloatSum(SliceQuantities, Len(Orders)) # v.total_quantity

\* has setup_grid_strategy computed its levels
GridComputed == op = "grid" /\ grid_prices # <<>>

\* level i (0-indexed) is lower + i * (upper - lower) / (n - 1) up to tol
\* units in the last place of upper: compared after multiplying by n - 1
NearLevel(level, i, lower, upper, n, tol) ==
    XLeq(XAbsDiff(XAdd(XMul(n - 1, XOf(level)), XMul(i, XOf(lower))),
                  XAdd(XMul(n - 1, XOf(lower)), XMul(i, XOf(upper)))),
         Ulps(tol * (n - 1), upper))

\* C10 as stated: the grid holds exactly num_grids levels, the first is
\* lower_price, the last is upper_price, consecutive levels differ by the
\* constant step (upper_price - lower_price) / (num_grids - 1), and the
\* levels are strictly increasing.
C10_GridExact ==
    GridComputed =>
       /\ Len(grid_prices) = v.num_grids
       /\ grid_prices[1] = v.lower_price
       /\ grid_prices[Len(grid_prices)] = v.upper_price
       /\ \A i \in 1..(Len(grid_prices) - 1) :
             /\ FLess(grid_prices[i], grid_prices[i + 1])
             /\ FSub(grid_prices[i + 1], grid_prices[i])
                   = FDivInt(FSub(v.upper_price, v.lower_price), v.num_grids - 1)

\* is the step at least two units in the last place of upper
StepResolved(lower, upper, n) ==
    XLeq(Ulps(2, upper), XOf(FDivInt(FSub(upper, lower), n - 1)))

\* C10 amended: the grid holds exactly num_grids levels, the first is
\* lower_price exactly, the levels are non-decreasing, and strictly
\* increasing when the step is at least 2 units in the last place of
\* upper_price, and level i, the last one included, is lower_price + i *
\* (upper_price - lower_price) / (num_grids - 1) up to 4 units in the last
\* place of upper_price.
C10_GridWithinTolerance ==
    GridComputed =>
       /\ Len(grid_prices) = v.num_grids
       /\ grid_prices[1] = v.lower_price
       /\ \A i \in 1..(Len(grid_prices) - 1) :
             /\ FLeq(grid_prices[i], grid_prices[i + 1])
             /\ StepResolved(v.lower_price, v.upper_price, v.num_grids)
                   => FLess(grid_prices[i], grid_prices[i + 1])
       /\ \A i \in 1..Len(grid_prices) :
             NearLevel(grid_prices[i], i - 1, v.lower_price, v.upper_price, v.num_grids, 4)

C10_Witness ==
    /\ GridComputed
    /\ Len(grid_prices) = MaxGrids
    /\ grid_prices[Len(grid_prices)] # v.upper_price

\* the levels strictly below or strictly above the sampled price, in order
LevelsOffPrice ==
    SelectSeq(grid_prices,
              LAMBDA p : FLess(p, current_price) \/ FLess(current_price, p))

\* the GTC LIMIT order the claim expects at level p
ExpectedGridOrder(p) ==
    [symbol |-> validate_symbol(args.symbol).v,
     side |-> IF FLess(p, current_price) THEN BUY ELSE SELL,
     type |-> "LIMIT", timeInForce |-> "GTC",
     quantity |-> validate_quantity(args.quantity_per_grid).v,
     price |-> p]

\* C11: in setup_grid_strategy the submissions are, in order, one GTC LIMIT
\* order per level that differs from the sampled price: a BUY at the level
\* when it is strictly below, a SELL at the level when it is strictly
\* above, each of quantity quantity_per_grid; a level equal to the sampled
\* price is never submitted, and a completed run has submitted all others.
C11_GridSides ==
    (op = "grid" /\ current_price # None) =>
       /\ Len(Orders) <= Len(LevelsOffPrice)
       /\ \A k \in 1..Len(Orders) : Orders[k].params = ExpectedGridOrder(LevelsOffPrice[k])
       /\ (pc = "done" /\ outcome = "return") => Len(Orders) = Len(LevelsOffPrice)

C11_Witness ==
    /\ op = "grid" /\ pc = "done" /\ outcome = "return"
    /\ \E i \in 1..Len(grid_prices) : grid_prices[i] = current_price
    /\ \E k \in 1..Len(Orders) : Orders[k].params.side = BUY
    /\ \E k \in 1..Len(Orders) : Orders[k].params.side = SELL

IsTicker(e) == e.kind = "symbol_ticker"

\* the steps that precede the placement loop: client construction, the
\* connectivity probe and the price fetch
IsSetup(e) == e.kind \in {"client_init", "futures_ping", "symbol_ticker"}

\* C12: in setup_grid_strategy the price is fetched at most once, and
\* exactly once before the loop starts, after the connectivity probe
\* succeeded and before any order; every order's side is decided against
\* that one sample; when client construction, the probe or the fetch fails
\* the call ends with that error, without result and without any order.
C12_SinglePriceSample ==
    op = "grid" =>
       /\ Count("symbol_ticker") <= 1
       /\ (pc = "loop" \/ outcome = "return") => Count("symbol_ticker") = 1
       /\ \A i \in 1..Len(events) :
             IsTicker(events[i]) =>
                /\ \E j \in 1..(i - 1) :
                      events[j] = [kind |-> "futures_ping", res |-> "ok"]
                /\ \A j \in 1..(i - 1) : ~IsOrder(events[j])
       /\ \A i \in 1..Len(events) :
             IsOrder(events[i]) =>
                \E j \in 1..(i - 1) :
                   /\ IsTicker(events[j]) /\ events[j].res = "ok"
                   /\ current_price = FromRatio(events[j].price.num, events[j].price.den)
                   /\ (events[i].params.side = BUY)
                         <=> FLess(events[i].params.price, current_price)
       /\ \A i \in 1..Len(events) :
             (IsSetup(events[i]) /\ events[i].res # "ok") =>
                /\ i = Len(events)
                /\ pc = "done" /\ outcome = ExcOf(events[i].res)
                /\ result = None /\ Len(Orders) = 0

C12_Witness ==
    /\ op = "grid" /\ pc = "done" /\ outcome = "return"
    /\ Count("symbol_ticker") = 1
    /\ Len(Orders) >= 2

\* C13 as stated: a setup_grid_strategy call with num_grids = 1 and
\* otherwise valid arguments ends with ValidationError before any network
\* operation.
C13_SingleGridRejected ==
    (op = "grid" /\ pc = "done" /\ args.num_grids = Num(1, 1) /\ GridV(args).ok) =>
       /\ outcome = "ValidationError"
       /\ NoNetwork

SingleOps == {"market", "limit", "stop_limit"}

ClientObtained ==
    \E i \in 1..Len(events) : events[i] = [kind |-> "futures_ping", res |-> "ok"]

\* the order context a single-order placer hands to log_order
LoggedContext(l) ==
    /\ l.symbol = v.symbol /\ l.side = v.side /\ l.quantity = v.quantity
    /\ CASE op = "market"     -> l.order_type = "MARKET" /\ l.price = None
         [] op = "limit"      -> l.order_type = "LIMIT" /\ l.price = v.price
         [] op = "stop_limit" -> /\ l.order_type = "STOP_LIMIT"
                                 /\ l.price = v.limit_price
                                 /\ l.stop_price = v.stop_price

\* C14: a single-order placer submits at most one order per call, and
\* exactly one once validation passed and the client was obtained; when the
\* submission succeeds its response is returned; when it fails the failure
\* is logged through log_order with the order context, the same error is
\* the outcome of the call and no further submission follows.
C14_SingleSubmission ==
    op \in SingleOps =>
       /\ Len(Orders) <= 1
       /\ (pc = "done" /\ ~FailsValidation /\ ClientObtained) => Len(Orders) = 1
       /\ Len(Orders) = 1 =>
             /\ pc = "done"
             /\ IsOrder(events[Len(events)])
             /\ Len(logs) = 1 /\ LoggedContext(logs[1])
             /\ IF Orders[1].res = "ok"
                THEN /\ outcome = "return"
                     /\ result = [orderId |-> Len(events), params |-> Orders[1].params]
                     /\ logs[1].response = result /\ logs[1].error = None
                ELSE /\ outcome = ExcOf(Orders[1].res)
                     /\ result = None
                     /\ logs[1].error = [exc |-> outcome] /\ logs[1].response = None

C14_Witness ==
    /\ op = "limit" /\ pc = "done"
    /\ Len(Orders) = 1 /\ Orders[1].res = "api_error"
    /\ outcome = "BinanceAPIException"

\* the two submissions the claim expects of place_oco_order, in order, for
\* the validated symbol sy, side sd, quantity q and prices p, sp, slp
ExpectedOco(sy, sd, q, p, sp, slp) ==
    << [symbol |-> sy, side |-> IF sd = BUY THEN SELL ELSE BUY, type |-> "TAKE_PROFIT",
        timeInForce |-> "GTC", quantity |-> q, price |-> p, stopPrice |-> p,
        reduceOnly |-> "true"],
       [symbol |-> sy, side |-> IF sd = BUY THEN SELL ELSE BUY, type |-> "STOP",
        timeInForce |-> "GTC", quantity |-> q, price |-> slp, stopPrice |-> sp,
        reduceOnly |-> "true"] >>

OcoOrdersAsExpected(want) ==
    /\ Len(Orders) <= 2
    /\ \A k \in 1..Len(Orders) : Orders[k].params = want[k]

BothSucceeded == Len(Orders) = 2 /\ Orders[1].res = "ok" /\ Orders[2].res = "ok"

\* C15: place_oco_order with valid inputs submits first a reduce-only
\* TAKE_PROFIT order with limit and trigger equal to price, then, only
\* after that succeeded, a reduce-only STOP order with trigger stop_price
\* and limit stop_limit_price, both of the given quantity on the side
\* opposite to the input side; when both succeed, and only then, the pair
\* of their responses is returned.
C15_OcoSubmissions ==
    (op = "oco" /\ ~FailsValidation /\ pc # "validate") =>
       /\ OcoOrdersAsExpected(ExpectedOco(validate_symbol(args.symbol).v,
                                          validate_side(args.side).v,
                                          validate_quantity(args.quantity).v,
                                          validate_price(args.price).v,
                                          validate_price(args.stop_price).v,
                                          validate_price(args.stop_limit_price).v))
       /\ Len(Orders) = 2 => Orders[1].res = "ok"
       /\ (pc = "done" /\ ClientObtained) => Len(Orders) >= 1
       /\ BothSucceeded <=> outcome = "return"
       /\ BothSucceeded =>
             result = [take_profit |-> ResponsesAt(OrderIdx)[1],
                       stop_loss |-> ResponsesAt(OrderIdx)[2]]

C15_Witness ==
    /\ op = "oco" /\ pc = "done" /\ outcome = "return"
    /\ v.side = BUY
    /\ Orders[1].params.side = SELL /\ Orders[2].params.side = SELL

\* the price relation the claim says is refused
RefusedRelation(stop, limit, side) ==
    \/ side = BUY /\ FLess(stop, limit)
    \/ side = SELL /\ FLess(limit, stop)

\* do the five single-argument validators of place_stop_limit_order pass
StopLimitArgsParse ==
    /\ validate_symbol(args.symbol).ok /\ validate_side(args.side).ok
    /\ validate_quantity(args.quantity).ok
    /\ validate_price(args.stop_price).ok /\ validate_price(args.limit_price).ok

AlnumUpper ==
    { "A","B","C","D","E","F","G","H","I","J","K","L","M","N","O","P","Q","R","S","T",
      "U","V","W","X","Y","Z","0","1","2","3","4","5","6","7","8","9" }

\* the claim's acceptance condition on the uppercase form u of a text
AcceptableSymbol(u) ==
    /\ Len(u) >= 4
    /\ \A i \in 1..Len(u) : u[i] \in AlnumUpper
    /\ <<u[Len(u) - 3], u[Len(u) - 2], u[Len(u) - 1], u[Len(u)]>> = <<"U", "S", "D", "T">>

\* C17: validate_symbol returns, and then returns the uppercase form of
\* its input, exactly when the input is a non-empty string whose uppercase
\* form consists of A-Z and 0-9 only and ends in USDT; every other input
\* raises ValidationError; a returned value validates again to itself.
C17_SymbolAccepted ==
    (op = "validate_symbol" /\ pc = "done") =>
       /\ outcome \in {"return", "ValidationError"}
       /\ outcome = "return"
             <=> (args.symbol.isStr /\ AcceptableSymbol(Upper(args.symbol.chars)))
       /\ outcome = "return" =>
             /\ result = Upper(args.symbol.chars)
             /\ validate_symbol(Str(result)) = Valid(result)

C17_Witness ==
    /\ op = "validate_symbol" /\ pc = "done" /\ outcome = "return"
    /\ args.symbol.chars = <<"1", "u", "S", "d", "T">>
    /\ result = <<"1", "U", "S", "D", "T">>

IsPositive(x) == ~IsNaN(x) /\ x.s = 0 /\ x.m # <<>>

\* C18 as stated: validate_quantity and validate_price raise ValidationError
\* for every input that is unparsable or <= 0, every value they return is a
\* number > 0, and every order submitted carries a quantity and prices > 0.
C18_PositiveOnly ==
    /\ (op \in {"validate_quantity", "validate_price"} /\ pc = "done") =>
          /\ outcome \in {"return", "ValidationError"}
          /\ outcome = "return" => IsPositive(result)
    /\ \A k \in 1..Len(Orders) :
          /\ IsPositive(Orders[k].params.quantity)
          /\ "price" \in DOMAIN Orders[k].params => IsPositive(Orders[k].params.price)
          /\ "stopPrice" \in DOMAIN Orders[k].params
                => IsPositive(Orders[k].params.stopPrice)

\* the values of len(sys.argv) a command line's script or subcommand accepts
\* (a word that is no command is not constrained)
AcceptedArgc(run) ==
    IF run.script # "order_manager" THEN {Arity(run.script)}
    ELSE IF run.argc < 2 THEN {}
    ELSE CASE Lower(run.command.chars) = list_cmd -> {2, 3}
           [] Lower(run.command.chars) \in {cancel_cmd, status_cmd} -> {4}
           [] Lower(run.command.chars) = cancel_all_cmd -> {3}
           [] OTHER -> {run.argc}

\* C19 as stated: a command line whose argument count differs from the one
\* its script or subcommand accepts prints the usage text and exits with
\* code 1, and neither a validation nor an exchange call has happened.
C19_ArityChecked ==
    (main_pc \in {"running", "exited"} /\ cli.argc \notin AcceptedArgc(cli)) =>
       /\ main_pc = "exited" /\ printed = "usage" /\ exit_code = 1
       /\ pc = "main" /\ events = <<>>

\* the prefix the claim assigns to a failed command line: malformed input
\* (an argument the validators refuse, an order id that is no number), a
\* failed exchange call, anything else
ExpectedPrefix ==
    IF op = "main" \/ outcome = "ValidationError" THEN "Validation Error"
    ELSE IF outcome = "BinanceAPIException" THEN "Binance API Error"
    ELSE "Error"

\* C20 as stated: a command line that got past the argument count and the
\* choice of the command exits with code 0 when its operation returned
\* normally, and otherwise exits with code 1 after printing the prefix of
\* the failure's class.
C20_ErrorPrefixes ==
    (main_pc = "exited" /\ printed \notin {"usage", "Unknown command"}) =>
       IF outcome = "return"
       THEN exit_code = 0
       ELSE exit_code = 1 /\ printed = ExpectedPrefix

\* the 1-based indices, among the first n levels, of those that differ
\* from the sampled price
OffPriceAmong(n) ==
    SelectSeq([i \in 1..n |-> i], LAMBDA i : grid_prices[i] # current_price)

\* the levels of the loop that have been gone through: idx of them while
\* the loop runs and after a return, idx + 1 when an error left the loop
\* inside iteration idx
LevelsVisited == IF pc = "done" /\ outcome # "return" THEN idx + 1 ELSE idx

\* C23: in setup_grid_strategy, from the sampling of the price on: the
\* submissions are made at distinct levels (the k-th submission at the
\* k-th visited level that differs from the sampled price), so no level is
\* submitted twice; buy_orders and sell_orders together hold at most as
\* many orders as levels differ from the sampled price, hence at most
\* num_grids; every order in buy_orders is at a price strictly below the
\* sampled price and every order in sell_orders strictly above it; and the
\* returned grid_prices is the complete sequence of num_grids levels.
C23_GridLoopInvariant ==
    (op = "grid" /\ current_price # None) =>
       /\ Len(Orders) <= Len(OffPriceAmong(LevelsVisited))
       /\ \A k \in 1..Len(Orders) :
             Orders[k].params.price = grid_prices[OffPriceAmong(v.num_grids)[k]]
       /\ Len(buy_orders) + Len(sell_orders) <= Len(OffPriceAmong(v.num_grids))
       /\ Len(OffPriceAmong(v.num_grids)) <= v.num_grids
       /\ \A k \in 1..Len(buy_orders) : FLess(buy_orders[k].params.price, current_price)
       /\ \A k \in 1..Len(sell_orders) : FLess(current_price, sell_orders[k].params.price)
       /\ (pc = "done" /\ outcome = "return") =>
             /\ result.grid_prices
                   = GridPrices(v.lower_price, v.upper_price, v.num_grids)
             /\ Len(result.grid_prices) = v.num_grids
             /\ result.buy_orders = buy_orders /\ result.sell_orders = sell_orders

C23_Witness ==
    /\ op = "grid" /\ pc = "done" /\ outcome = "return"
    /\ Len(result.buy_orders) = 1 /\ Len(result.sell_orders) = 0
    /\ Len(Orders) = 2 /\ Orders[2].res = "api_error"
    /\ Len(OffPriceAmong(v.num_grids)) < v.num_grids

GridOrderPrices == [k \in 1..Len(Orders) |-> Orders[k].params.price]

BuysBeforeSells ==
    \A j, k \in 1..Len(Orders) :
       (Orders[j].params.side = SELL /\ Orders[k].params.side = BUY) => k < j

\* C24 as stated: the prices of the submissions of setup_grid_strategy are
\* strictly ascending in the order of submission, and every BUY submission
\* precedes every SELL submission.
C24_StrictlyAscending ==
    op = "grid" =>
       /\ \A k \in 1..(Len(Orders) - 1) : FLess(GridOrderPrices[k], GridOrderPrices[k + 1])
       /\ BuysBeforeSells

\* C24 amended: the prices of the submissions of setup_grid_strategy never
\* descend in the order of submission, and ascend strictly when the step is
\* at least 2 units in the last place of upper_price; in every case every
\* BUY submission precedes every SELL submission, so no BUY follows a SELL.
C24_AscendingSubmissions ==
    op = "grid" =>
       /\ \A k \in 1..(Len(Orders) - 1) :
             /\ FLeq(GridOrderPrices[k], GridOrderPrices[k + 1])
             /\ StepResolved(v.lower_price, v.upper_price, v.num_grids)
                   => FLess(GridOrderPrices[k], GridOrderPrices[k + 1])
       /\ BuysBeforeSells

C24_Witness ==
    /\ op = "grid" /\ pc = "done" /\ outcome = "return"
    /\ Len(Orders) = 4
    /\ Orders[2].params.side = BUY /\ Orders[3].params.side = SELL
    /\ StepResolved(v.lower_price, v.upper_price, v.num_grids)

\* at least one item was submitted and the exchange rejected every one
AllRejected ==
    /\ Len(Orders) >= 1
    /\ \A k \in 1..Len(Orders) : Orders[k].res = "api_error"

\* the run was handed to log_order once, as a completed run
LoggedAsCompleted ==
    /\ Len(logs) = 1
    /\ logs[1].error = None
    /\ logs[1].response # None

\* C25: when the exchange rejects every grid level placement, or every TWAP
\* slice, the call has still gone through all its items and returns
\* normally with empty order lists, the run is logged through log_order
\* once with a response and no error, and a command-line run prints its
\* completion summary and exits with code 0.
C25_TotalRejectionCompletes ==
    /\ (op = "grid" /\ pc = "done" /\ AllRejected) =>
          /\ outcome = "return"
          /\ Len(Orders) = Len(OffPriceAmong(v.num_grids))
          /\ result.buy_orders = <<>> /\ result.sell_orders = <<>>
          /\ LoggedAsCompleted
          /\ logs[1].response = [buy_count |-> 0, sell_count |-> 0]
    /\ (op = "twap" /\ pc = "done" /\ AllRejected) =>
          /\ outcome = "return"
          /\ Len(Orders) = v.num_orders
          /\ result = <<>>
          /\ LoggedAsCompleted
          /\ logs[1].response = [executed_orders |-> 0, total_orders |-> v.num_orders]
    /\ (op \in {"grid", "twap"} /\ main_pc = "exited" /\ AllRejected) =>
          printed = "success" /\ exit_code = 0

C25_Witness ==
    /\ op = "twap" /\ main_pc = "exited" /\ exit_code = 0
    /\ Len(Orders) >= 2
    /\ AllRejected

\* C21: when a TWAP run is interrupted during a pause, after k executed
\* slices with 0 < k < num_orders, the interruption is the last thing that
\* happened in the run: no slice, cancel or other call follows it; the call
\* ends with KeyboardInterrupt; the k responses are still held and nothing
\* was handed to log_order; and the command-line run logs the interruption
\* and exits with a non-zero code.
C21_InterruptStopsRun ==
    (op = "twap" /\ Interrupted) =>
       /\ events[Len(events)].kind = "interrupt"
       /\ Count("interrupt") = 1
       /\ \A i \in 1..Len(events) : ~IsCancel(events[i])
       /\ \A k \in 1..Len(Orders) : Orders[k].params.side = v.side
       /\ IsOrder(events[Len(events) - 1]) /\ events[Len(events) - 1].res = "ok"
       /\ pc = "done" /\ outcome = "KeyboardInterrupt"
       /\ executed_orders = ResponsesAt(Succeeded)
       /\ Len(executed_orders) >= 1 /\ Len(Orders) < v.num_orders
       /\ logs = <<>>
       /\ main_pc # "none" =>
             /\ main_pc \in {"running", "exited"}
             /\ main_pc = "exited" =>
                   /\ exit_code = 1
                   /\ logged = "TWAP execution interrupted by user"
                   /\ printed = "TWAP execution interrupted by user"

C21_Witness ==
    /\ op = "twap" /\ main_pc = "exited" /\ Interrupted
    /\ Len(executed_orders) = 1 /\ Len(Orders) = 2
    /\ v.num_orders = 3

\* does a returned slice report both an average price and an executed quantity
ReportsBoth(order) == order.fill.avgPrice # None /\ order.fill.executedQty # None

XZero == XNum(<<>>, 0)

\* the exact product of the floats q and p, q with a small odd part
XProduct(q, p) ==
    IF q.m = <<>> \/ p.m = <<>> THEN XZero
    ELSE XNum(MulBits(p.m, OddPart(q).k), p.e + OddPart(q).e)

\* the exact sums, over the first k returned slices that report both, of
\* executedQty and of executedQty * avgPrice
RECURSIVE ExactQty(_, _)
ExactQty(orders, k) ==
    IF k = 0 THEN XZero
    ELSE IF ~ReportsBoth(orders[k]) THEN ExactQty(orders, k - 1)
    ELSE XAdd(ExactQty(orders, k - 1), XOf(ParseFloat(orders[k].fill.executedQty).v))

RECURSIVE ExactCost(_, _)
ExactCost(orders, k) ==
    IF k = 0 THEN XZero
    ELSE IF ~ReportsBoth(orders[k]) THEN ExactCost(orders, k - 1)
    ELSE XAdd(ExactCost(orders, k - 1),
              XProduct(ParseFloat(orders[k].fill.executedQty).v,
                       ParseFloat(orders[k].fill.avgPrice).v))

XPositive(x) == \E i \in 1..Len(x.b) : x.b[i] = 1

\* x * q for exact numbers, q with few bits
XTimes(x, q) ==
    XNum(MulBits(x.b, NatOfBits(SubSeq(q.b, 1, Len(q.b) - TrailingZeros(q.b)))),
         x.e + q.e + TrailingZeros(q.b))

XNat(n) == XNum(BitsOfNat(n), 0)

\* is h hundredths within tol / 2 hundredths of cost / qty
NearMean(h, cost, qty, tol) ==
    XLeq(XAbsDiff(XMul(200, cost), XTimes(XNat(2 * h), qty)), XMul(tol, qty))

TwapReported == op = "twap" /\ main_pc = "exited" /\ outcome = "return"

WithinUlps(avg, cost, qty, tol) ==
    XLeq(XAbsDiff(XTimes(XOf(avg), qty), cost), XTimes(Ulps(tol, avg), qty))

\* is h the hundredth nearest to the float avg
NearestHundredth(h, avg) ==
    XLeq(XAbsDiff(XMul(200, XOf(avg)), XNat(2 * h)), XNat(1))

====
